---- MODULE Spec2Model ----
(***************************************************************************)
(* Machine monitoring system: the telemetry generator (src/simulator.py),  *)
(* the status-update endpoint (src/api.py) and the windowed analyzer       *)
(* (src/processor.py, src/utils.py), communicating through three files:    *)
(* the telemetry log, the cursor file and the analysis table.              *)
(*                                                                         *)
(* Units.  Temperatures and speeds are kept in hundredths (the generator   *)
(* rounds to 2 decimals), so 25.0 degrees is 2500 and 1500 RPM is 150000.  *)
(* Timestamps are instants of a discrete wall clock; the ISO-8601 text     *)
(* written by isoformat() and read back by fromisoformat() denotes the     *)
(* same instant, and the code only ever compares the parsed instants.      *)
(* A moving average is kept as its numerator over window_size.             *)
(***************************************************************************)
EXTENDS Integers, Sequences, FiniteSets, TLC

\* ------------------------------------------------------------------ bounds
\* reads of the wall clock (timestamps handed out)
MaxClock == 4
\* lines in the telemetry log when both writers and the analyzer run
MaxLog == 3
\* status-update requests served
MaxPosts == 1
\* faults injected: torn log writes, interrupts and kills, failed file saves
MaxFaults == 2
\* DataProcessor's window_size constructor argument (config default: 5)
window_size == 2

\* ------------------------------------------------------------- configuration
possible_values == {"STARTED", "RUNNING", "PAUSED", "COMPLETED", "SHUTDOWN"}

transitions(s) ==
    CASE s = "STARTED"   -> {"RUNNING", "SHUTDOWN"}
      [] s = "RUNNING"   -> {"PAUSED", "COMPLETED", "SHUTDOWN"}
      [] s = "PAUSED"    -> {"RUNNING", "SHUTDOWN"}
      [] s = "COMPLETED" -> {"STARTED", "SHUTDOWN"}
      [] s = "SHUTDOWN"  -> {"STARTED"}
      [] OTHER           -> {}

\* PARAMETERS[metric]['expected_range'] and ['alert_range'], in hundredths
temperature_expected_range == <<1500, 3500>>
temperature_alert_range == <<1000, 4000>>
speed_expected_range == <<100000, 200000>>
speed_alert_range == <<80000, 220000>>

\* the absent cursor (Python's None); every timestamp is greater
None == 0

\* ------------------------------------------------------------------- state
VARIABLES
    clock,            \* datetime.now()
    stream,           \* STREAM_FILE: the lines of the telemetry log
    current_status,   \* MachineSimulator.current_status
    sim_pc,           \* MachineSimulator.run: "tick" (in the loop) or "stopped"
    api_pc,           \* MachineStatusResource.post: "idle" or "append"
    api_new,          \* post's new_data, validated and not yet appended
    posts,            \* requests served so far
    faults,           \* faults injected so far
    proc_pc,          \* DataProcessor.run: "poll", "save_csv", "save_cursor", "dead"
    last_processed,   \* DataProcessor.last_processed
    temp_buffer,      \* DataProcessor.temp_buffer
    speed_buffer,     \* DataProcessor.speed_buffer
    status_buffer,    \* DataProcessor.status_buffer
    analysis,         \* run's local: the record returned by process_and_analyze
    cursor_file,      \* LAST_PROCESSED_FILE
    csv,              \* ANALYSIS_CSV: header row, then data rows
    csv_exists,       \* ANALYSIS_CSV exists (output_csv.exists())
    consumed,         \* history: readings pushed since this processor started
    restarted,        \* history: this processor replaced one that was killed
    died_at,          \* history: proc_pc of the last processor that died, at its death
    skipped,          \* history: timestamp of the partial line the last poll
                      \*          that stopped at one stopped at
    probe             \* a call of one of the analyzer's pure functions: its
                      \*          argument and, once evaluated, its result

vars == <<clock, stream, current_status, sim_pc, api_pc, api_new,
          posts, faults, proc_pc, last_processed, temp_buffer, speed_buffer,
          status_buffer, analysis, cursor_file, csv, csv_exists, consumed,
          restarted, died_at, skipped, probe>>

simVars == <<current_status, sim_pc>>
apiVars == <<api_pc, api_new, posts>>
procVars == <<proc_pc, last_processed, temp_buffer, speed_buffer, status_buffer,
              analysis, cursor_file, csv, csv_exists, consumed, restarted,
              died_at, skipped>>

\* ----------------------------------------------------------------- helpers
Min(a, b) == IF a < b THEN a ELSE b
Max(a, b) == IF a > b THEN a ELSE b
Abs(x) == IF x < 0 THEN -x ELSE x
Last(s) == s[Len(s)]
\* Python's s[-n:] for n >= 1
Tail_n(s, n) == IF Len(s) <= n THEN s ELSE SubSeq(s, Len(s) - n + 1, Len(s))

RECURSIVE Sum(_)
Sum(s) == IF s = <<>> THEN 0 ELSE s[1] + Sum(Tail(s))

Count(s, x) == Cardinality({i \in DOMAIN s : s[i] = x})
Range(s) == {s[i] : i \in DOMAIN s}

\* ------------------------------------------------------------ telemetry log
NoReading == [timestamp |-> 0, temperature |-> 0, speed |-> 0, status |-> ""]

Reading(ts, temp, speed, status) ==
    [timestamp |-> ts, temperature |-> temp, speed |-> speed, status |-> status]

\* A line of the file: the reading it encodes, whether it parses (ok) and
\* whether it ends in a newline (nl).
Line(r) == [reading |-> r, ok |-> TRUE, nl |-> TRUE]
\* what a write cut short leaves: a prefix of the JSON text, no newline
TornLine == [reading |-> NoReading, ok |-> FALSE, nl |-> FALSE]

\* a newline-terminated line that does not parse
MalformedLine == [reading |-> NoReading, ok |-> FALSE, nl |-> TRUE]

\* open('a') + write(json_line + '\n'): the text lands at the end of the file.
\* After a torn line it continues that line, and the two together do not parse.
AppendLine(lines, r) ==
    IF lines # <<>> /\ ~Last(lines).nl
    THEN [lines EXCEPT ![Len(lines)] = MalformedLine]
    ELSE Append(lines, Line(r))

\* the first part of a line of reading r, the rest not yet in the file: the
\* whole JSON text with only the newline to come, which parses, or less of it
PartialLine(r, whole) == [reading |-> r, ok |-> whole, nl |-> FALSE]

\* the first part of the text lands at the end of the file
AppendPartial(lines, r, whole) ==
    IF lines # <<>> /\ ~Last(lines).nl
    THEN [lines EXCEPT ![Len(lines)] = TornLine]
    ELSE Append(lines, PartialLine(r, whole))

\* the rest of the text and the newline land at the end of the file: they
\* complete the line when its first part is still the end of the file
CompleteLine(lines) ==
    IF lines # <<>> /\ ~Last(lines).nl
    THEN IF Last(lines).reading # NoReading
         THEN [lines EXCEPT ![Len(lines)] = Line(Last(lines).reading)]
         ELSE [lines EXCEPT ![Len(lines)] = MalformedLine]
    ELSE Append(lines, MalformedLine)

\* the same write cut short before the newline
AppendTorn(lines) ==
    IF lines # <<>> /\ ~Last(lines).nl THEN lines ELSE Append(lines, TornLine)

\* ---------------------------------------------------------------- generator
\* a faulty get_next_status, for C1: PAUSED may be followed by COMPLETED
get_next_status_paused_completes(s) ==
    CASE s = "SHUTDOWN"  -> {"STARTED"}
      [] s = "STARTED"   -> {"RUNNING", "SHUTDOWN"}
      [] s = "RUNNING"   -> {"RUNNING"} \cup {n \in transitions(s) : n # s}
      [] s = "PAUSED"    -> {"RUNNING", "COMPLETED"}
      [] s = "COMPLETED" -> {"STARTED", "SHUTDOWN"}
      [] OTHER           -> {s}

\* every status random.random()/random.choice can make get_next_status return
get_next_status(s) ==
    CASE s = "SHUTDOWN"  -> {"STARTED"}
      [] s = "STARTED"   -> {"RUNNING", "SHUTDOWN"}
      [] s = "RUNNING"   -> {"RUNNING"} \cup {n \in transitions(s) : n # s}
      [] s = "PAUSED"    -> {"RUNNING", "SHUTDOWN"}
      [] s = "COMPLETED" -> {"STARTED", "SHUTDOWN"}
      [] OTHER           -> {s}

\* samples of the draws of generate_reading, as <<temperature, speed>>, each
\* round(random.uniform(lo, hi), 2) inside the status's ranges.  RUNNING, the
\* one status that can follow itself, gets two draws, so that two successive
\* readings can differ in value.
Draws(s) ==
    CASE s = "SHUTDOWN" -> {<<1500, 0>>}
      [] s = "PAUSED"   -> {<<2000, 80000>>}
      [] s = "RUNNING"  -> {<<2500, 100000>>, <<3500, 200000>>}
      [] s = "STARTED"  -> {<<3000, 150000>>}
      [] OTHER          -> {<<2200, 120000>>}

\* the draws generate_reading can make for a status, lines 50-62: the two ends
\* and the middle of each uniform range after round(.., 2), as <<temperature,
\* speed>>
DrawRange(s) ==
    CASE s = "SHUTDOWN" -> {1500, 1750, 2000} \X {0}
      [] s = "PAUSED"   -> {2000, 2250, 2500} \X {80000, 90000, 100000}
      [] s \in {"RUNNING", "STARTED"}
                        -> {2500, 3000, 3500} \X {100000, 150000, 200000}
      [] OTHER          -> {2000, 2500, 3000} \X {80000, 100000, 120000}

\* MachineSimulator(output_file)
SimInit ==
    /\ current_status = "SHUTDOWN"
    /\ sim_pc = "tick"

\* a faulty generate_reading, for C26: a paused machine reports speed 0, as a
\* shut down one does
generate_reading_paused_stops(new_status, draw) ==
    Reading(clock + 1, draw[1], IF new_status = "PAUSED" THEN 0 ELSE draw[2], new_status)

\* generate_reading's result for a next status and draws, stamped with
\* datetime.now(): a later instant than any read of the clock before it
generate_reading(new_status, draw) ==
    Reading(clock + 1, draw[1], draw[2], new_status)

\* run, lines 85-87: one iteration, generate_reading then write_reading
sim_tick ==
    /\ sim_pc = "tick"
    /\ clock < MaxClock
    /\ \E new_status \in get_next_status(current_status) :
       \E draw \in Draws(new_status) :
          /\ current_status' = new_status
          /\ stream' = AppendLine(stream, generate_reading(new_status, draw))
    /\ clock' = clock + 1
    /\ UNCHANGED <<sim_pc, faults>>
    /\ UNCHANGED apiVars
    /\ UNCHANGED procVars
    /\ UNCHANGED probe

\* the same iteration when the line reaches the file in two parts (the flush
\* of write_reading's buffer taking two writes): the first part is in the file
sim_write_begin ==
    /\ sim_pc = "tick"
    /\ clock < MaxClock
    /\ \E new_status \in get_next_status(current_status) :
       \E draw \in Draws(new_status) :
       \E whole \in BOOLEAN :
          /\ current_status' = new_status
          /\ stream' = AppendPartial(stream, generate_reading(new_status, draw), whole)
    /\ clock' = clock + 1
    /\ sim_pc' = "write"
    /\ UNCHANGED faults
    /\ UNCHANGED apiVars
    /\ UNCHANGED procVars
    /\ UNCHANGED probe

\* the rest of the line and its newline reach the file; then the sleep
sim_write_end ==
    /\ sim_pc = "write"
    /\ stream' = CompleteLine(stream)
    /\ sim_pc' = "tick"
    /\ UNCHANGED <<clock, current_status, faults>>
    /\ UNCHANGED apiVars
    /\ UNCHANGED procVars
    /\ UNCHANGED probe

\* the same iteration with write_reading raising part-way (an OSError at the
\* flush): the text written so far stays in the file, run's except clause logs
\* the error and clears self.running
sim_tick_write_fails ==
    /\ sim_pc = "tick"
    /\ clock < MaxClock
    /\ faults < MaxFaults
    /\ faults' = faults + 1
    /\ \E new_status \in get_next_status(current_status) :
          current_status' = new_status
    /\ clock' = clock + 1
    /\ stream' = AppendTorn(stream)
    /\ sim_pc' = "stopped"
    /\ UNCHANGED apiVars
    /\ UNCHANGED procVars
    /\ UNCHANGED probe

\* KeyboardInterrupt in run (or terminate() from run.py) during the sleep
sim_interrupt ==
    /\ sim_pc = "tick"
    /\ faults < MaxFaults
    /\ faults' = faults + 1
    /\ sim_pc' = "stopped"
    /\ UNCHANGED <<clock, stream, current_status>>
    /\ UNCHANGED apiVars
    /\ UNCHANGED procVars
    /\ UNCHANGED probe

\* the generator is started again: a new MachineSimulator
sim_start ==
    /\ sim_pc = "stopped"
    /\ current_status' = "SHUTDOWN"
    /\ sim_pc' = "tick"
    /\ UNCHANGED <<clock, stream, faults>>
    /\ UNCHANGED apiVars
    /\ UNCHANGED procVars
    /\ UNCHANGED probe

\* ------------------------------------------------------- status-update endpoint
\* get_latest_stream_data: the last line of the file, parsed; None (here
\* NoReading) when the file is missing or empty or that line does not parse
get_latest_stream_data(lines) ==
    IF lines = <<>> \/ ~Last(lines).ok THEN NoReading ELSE Last(lines).reading

\* str.upper on the request's status
Upper(s) ==
    CASE s = "running" -> "RUNNING"
      [] s = "paused"  -> "PAUSED"
      [] OTHER         -> s

\* the request bodies tried: each status, two in lower case, one unknown
\* status and a body with no status ("")
Requests == possible_values \cup {"running", "paused", "REBOOT", ""}

\* post without its last check, for C14: any status of the alphabet is
\* accepted whatever the current one
post_accepts_any_edge(data, lines) ==
    /\ data # ""
    /\ Upper(data) \in possible_values
    /\ get_latest_stream_data(lines) # NoReading

\* the checks of post, in the order the code makes them
post_accepts(data, lines) ==
    /\ data # ""
    /\ Upper(data) \in possible_values
    /\ get_latest_stream_data(lines) # NoReading
    /\ \/ Upper(data) = get_latest_stream_data(lines).status
       \/ Upper(data) \in transitions(get_latest_stream_data(lines).status)

ApiInit ==
    /\ api_pc = "idle"
    /\ api_new = NoReading
    /\ posts = 0

\* post up to new_data: validate against the last line, stamp datetime.now().
\* Every read of the clock sees a later instant than the read before it.
post_request(data) ==
    /\ api_pc = "idle"
    /\ posts < MaxPosts
    /\ clock < MaxClock
    /\ posts' = posts + 1
    /\ IF post_accepts(data, stream)
       THEN /\ clock' = clock + 1
            /\ api_new' = Reading(clock + 1,
                                  get_latest_stream_data(stream).temperature,
                                  get_latest_stream_data(stream).speed,
                                  Upper(data))
            /\ api_pc' = "append"
       ELSE UNCHANGED <<clock, api_pc, api_new>>
    /\ UNCHANGED <<stream, faults>>
    /\ UNCHANGED simVars
    /\ UNCHANGED procVars
    /\ UNCHANGED probe

\* the same for any request body
post_validate == \E data \in Requests : post_request(data)

\* post's append of new_data to the stream file
post_append ==
    /\ api_pc = "append"
    /\ stream' = AppendLine(stream, api_new)
    /\ api_pc' = "idle"
    /\ api_new' = NoReading
    /\ UNCHANGED <<clock, posts, faults>>
    /\ UNCHANGED simVars
    /\ UNCHANGED procVars
    /\ UNCHANGED probe

\* ----------------------------------------------------------------- analyzer
\* calculate_moving_stats on an empty array: np.nan
NaN == -1

\* np.pad's default mode, for C19: n zeros in front
RECURSIVE PadEdge_zeros(_, _)
PadEdge_zeros(values, n) ==
    IF n <= 0 THEN values ELSE PadEdge_zeros(<<0>> \o values, n - 1)

\* np.pad(values, (n, 0), mode='edge'): n copies of the first value in front
RECURSIVE PadEdge(_, _)
PadEdge(values, n) ==
    IF n <= 0 THEN values ELSE PadEdge(<<values[1]>> \o values, n - 1)

\* np.convolve(padded, np.ones(w)/w, mode='valid')[-1]: the mean of the last w
\* entries; kept as their sum, the numerator over w
ConvolveLast(padded, w) == Sum(Tail_n(padded, w))

\* values[-1] - values[-2] is a float64 difference: for two values exactly 0.10
\* apart it comes out just below 0.1 or just above, by the values' binary
\* forms.  15.1 - 15.0 is 0.09999999999999964, below; 25.1 - 25.0 is
\* 0.10000000000000142, above.  Of the values this model computes with, these
\* two pairs alone are 0.10 apart.
SlopeRoundsBelow(previous, latest) == {previous, latest} = {1500, 1510}

\* calculate_moving_stats(values, window_size)
calculate_moving_stats(values, w) ==
    IF Len(values) = 0
    THEN [moving_avg |-> NaN, trend |-> "insufficient_data"]
    ELSE [moving_avg |-> ConvolveLast(PadEdge(values, w - 1), w),
          trend |->
              IF Len(values) >= 2
              THEN LET slope == values[Len(values)] - values[Len(values) - 1]
                       below == SlopeRoundsBelow(values[Len(values) - 1], values[Len(values)])
                   IN  IF Abs(slope) < 10 \/ (Abs(slope) = 10 /\ below) THEN "stable"
                       ELSE IF slope > 0 THEN "increasing"
                       ELSE "decreasing"
              ELSE "stable"]

\* status_scores.get(status, 0.5), in tenths
status_score(status) ==
    CASE status = "STARTED"   -> 8
      [] status = "RUNNING"   -> 10
      [] status = "PAUSED"    -> 6
      [] status = "COMPLETED" -> 9
      [] status = "SHUTDOWN"  -> 5
      [] OTHER                -> 5

\* a division that drops the fraction, for C18: int() in place of round()
RoundDiv_floor(n, d) == n \div d

\* round(n / d, 0) for n >= 0, d > 0, a tie going to the even neighbour
RoundDiv(n, d) ==
    LET q == n \div d
        r == n % d
    IN  IF 2 * r < d THEN q
        ELSE IF 2 * r > d THEN q + 1
        ELSE IF q % 2 = 0 THEN q ELSE q + 1

\* calculate_health_score, in hundredths:
\*   temp_score  = max(0, 1500 - |t - 2500|) / 1500
\*   speed_score = max(0, 70000 - |s - 150000|) / 70000
\*   100 * (temp_score + speed_score + status_score/10) / 3
\*       = (140 * tn + 3 * sn + 21000 * st) / 6300
calculate_health_score(current_reading) ==
    LET tn == Max(0, 1500 - Abs(current_reading.temperature - 2500))
        sn == Max(0, 70000 - Abs(current_reading.speed - 150000))
        st == status_score(current_reading.status)
    IN  RoundDiv(140 * tn + 3 * sn + 21000 * st, 6300)

\* a range without its ends, for C17: a value on a bound is out of range
InRange_open(x, range) == range[1] < x /\ x < range[2]

\* lo <= x <= hi for a configured (lo, hi)
InRange(x, range) == range[1] <= x /\ x <= range[2]

\* generate_alerts: each alert is its fixed text and, for the first two, the
\* value formatted into it
generate_alerts(reading) ==
    (IF ~InRange(reading.temperature, temperature_alert_range)
     THEN <<[text |-> "Temperature out of safe range", value |-> reading.temperature]>>
     ELSE <<>>)
    \o
    (IF ~InRange(reading.speed, speed_alert_range)
     THEN <<[text |-> "Speed out of safe range", value |-> reading.speed]>>
     ELSE <<>>)
    \o
    (IF reading.status = "PAUSED"
     THEN <<[text |-> "Machine paused - may require attention", value |-> 0]>>
     ELSE IF reading.status = "SHUTDOWN"
     THEN <<[text |-> "Machine shutdown - check if scheduled", value |-> 0]>>
     ELSE <<>>)

\* max(set(status_buffer), key=status_buffer.count): max keeps the first
\* maximal element in the set's iteration order, which for strings depends on
\* the process's hash seed, so any of the most frequent statuses can come out
status_modes(buffer) ==
    {s \in Range(buffer) : \A t \in Range(buffer) : Count(buffer, t) <= Count(buffer, s)}

\* a faulty filter, for C8: no line counts as processed, so every line read
\* becomes the cursor
IsProcessed_never(cursor, timestamp) == FALSE

\* a filter that compares with <, for C21: the reading at the cursor is new again
IsProcessed_strict(cursor, timestamp) == cursor # None /\ timestamp < cursor

\* process_new_readings, line 68: the reading was already processed
IsProcessed(cursor, timestamp) == cursor # None /\ timestamp <= cursor

\* a lenient parser: the first part of a line is taken for the line
Parses_lenient(line) == line.ok \/ line.reading # NoReading

\* process_new_readings, lines 65-66: json.loads(line.strip()) and
\* fromisoformat(reading['timestamp']) return without raising
Parses(line) == line.ok

\* process_new_readings: the loop over the file's lines from line i on.  A line
\* that does not parse raises inside the try, which ends the loop; what was
\* read before it is returned.
RECURSIVE ReadLines(_, _, _, _)
ReadLines(lines, i, cursor, new_readings) ==
    IF i > Len(lines) \/ ~Parses(lines[i])
    THEN [new_readings |-> new_readings, last_processed |-> cursor]
    ELSE IF IsProcessed(cursor, lines[i].reading.timestamp)
    THEN ReadLines(lines, i + 1, cursor, new_readings)
    ELSE ReadLines(lines, i + 1, lines[i].reading.timestamp,
                   Append(new_readings, lines[i].reading))

\* a faulty read, for C25: the new readings are returned and the cursor is not
\* advanced
process_new_readings_keeps_cursor(lines, cursor) ==
    [ReadLines(lines, 1, cursor, <<>>) EXCEPT !.last_processed = cursor]

\* process_new_readings, lines 58-76
process_new_readings(lines, cursor) == ReadLines(lines, 1, cursor, <<>>)

\* a faulty trim, for C10: one entry too many is kept
KeepWindow_off_by_one(buffer) == Tail_n(buffer, window_size + 1)

\* update_buffers, lines 87-89: buffer[-self.window_size:]
KeepWindow(buffer) == Tail_n(buffer, window_size)

\* an update that pushes the newest value alone, for C20
update_buffer_newest_only(buffer, values) ==
    IF values = <<>> THEN buffer
    ELSE KeepWindow(Append(buffer, Last(values)))

\* update_buffers for one of the three buffers and the values pushed into it
RECURSIVE update_buffer(_, _)
update_buffer(buffer, values) ==
    IF values = <<>> THEN buffer
    ELSE update_buffer(KeepWindow(Append(buffer, Head(values))), Tail(values))

Column(readings, field) == [i \in DOMAIN readings |-> readings[i][field]]

\* process_and_analyze from line 118: the analysis of current_reading over the
\* updated buffers, for one outcome `mode` of the status mode
Analyse(current_reading, temps, speeds, statuses, mode) ==
    [timestamp |-> current_reading.timestamp,
     temperature |->
        [current |-> current_reading.temperature,
         moving_avg |-> calculate_moving_stats(temps, window_size).moving_avg,
         is_outlier |-> ~InRange(current_reading.temperature, temperature_expected_range),
         trend |-> calculate_moving_stats(temps, window_size).trend],
     speed |->
        [current |-> current_reading.speed,
         moving_avg |-> calculate_moving_stats(speeds, window_size).moving_avg,
         is_outlier |-> ~InRange(current_reading.speed, speed_expected_range),
         trend |-> calculate_moving_stats(speeds, window_size).trend],
     status |->
        [current |-> current_reading.status,
         mode |-> mode,
         changes_in_window |-> Cardinality(Range(statuses))],
     health_score |-> calculate_health_score(current_reading),
     alerts |-> generate_alerts(current_reading)]

NoAnalysis == [timestamp |-> None]

\* flatten_analysis_for_csv; the alerts stay a list (the join with ';' loses
\* nothing, no alert text holds a ';')
flatten_analysis_for_csv(a) ==
    [timestamp |-> a.timestamp,
     temperature_current |-> a.temperature.current,
     temperature_avg |-> a.temperature.moving_avg,
     temperature_trend |-> a.temperature.trend,
     speed_current |-> a.speed.current,
     speed_avg |-> a.speed.moving_avg,
     speed_trend |-> a.speed.trend,
     status_current |-> a.status.current,
     status_mode |-> a.status.mode,
     status_changes |-> a.status.changes_in_window,
     health_score |-> a.health_score,
     alerts |-> a.alerts]

\* a row of the analysis table: the header row, or a data row and its cells
HeaderRow == [header |-> TRUE, timestamp |-> None, cells |-> <<>>]
DataRow(a) == [header |-> FALSE, timestamp |-> a.timestamp,
               cells |-> <<flatten_analysis_for_csv(a)>>]

\* the cursor file after a write that truncated it and wrote nothing
Unreadable == -1

\* load_last_processed: a missing file and one that does not parse give None
load_last_processed(file) == IF file = Unreadable THEN None ELSE file

\* DataProcessor(input_file, last_processed_file)
NewProcessor ==
    /\ proc_pc' = "poll"
    /\ temp_buffer' = <<>>
    /\ speed_buffer' = <<>>
    /\ status_buffer' = <<>>
    /\ last_processed' = load_last_processed(cursor_file)
    /\ analysis' = NoAnalysis
    /\ consumed' = <<>>
    /\ skipped' = None

ProcInit ==
    /\ proc_pc = "poll"
    /\ temp_buffer = <<>>
    /\ speed_buffer = <<>>
    /\ status_buffer = <<>>
    /\ last_processed = None
    /\ analysis = NoAnalysis
    /\ cursor_file = None
    /\ csv = <<>>
    /\ csv_exists = FALSE
    /\ consumed = <<>>
    /\ restarted = FALSE
    /\ died_at = "never"
    /\ skipped = None

\* run, line 235: process_and_analyze.  With no new reading it returns None
\* and the loop sleeps; otherwise the buffers are updated and the analysis of
\* the last new reading is handed to save_to_csv.
process_and_analyze ==
    /\ proc_pc = "poll"
    /\ LET r == process_new_readings(stream, last_processed)
           readings == r.new_readings
       IN  /\ last_processed' = r.last_processed
           /\ consumed' = consumed \o readings
           /\ skipped' = IF stream # <<>> /\ ~Last(stream).nl /\ ~Parses(Last(stream))
                         THEN Last(stream).reading.timestamp
                         ELSE skipped
           /\ IF readings = <<>>
              THEN UNCHANGED <<proc_pc, temp_buffer, speed_buffer, status_buffer, analysis>>
              ELSE /\ temp_buffer' = update_buffer(temp_buffer, Column(readings, "temperature"))
                   /\ speed_buffer' = update_buffer(speed_buffer, Column(readings, "speed"))
                   /\ status_buffer' = update_buffer(status_buffer, Column(readings, "status"))
                   /\ \E mode \in status_modes(status_buffer') :
                         analysis' = Analyse(Last(readings), temp_buffer', speed_buffer',
                                             status_buffer', mode)
                   /\ proc_pc' = "save_csv"
    /\ UNCHANGED <<clock, stream, faults, cursor_file, csv, csv_exists, restarted, died_at>>
    /\ UNCHANGED simVars
    /\ UNCHANGED apiVars
    /\ UNCHANGED probe

\* run, lines 247-249: an exception raised inside process_and_analyze (outside
\* process_new_readings' own try: update_buffers, the statistics, the record)
\* reaches run's except clause, which logs it and clears self.running; run
\* returns and the process ends, its memory with it
process_and_analyze_raises ==
    /\ proc_pc = "poll"
    /\ faults < MaxFaults
    /\ faults' = faults + 1
    /\ proc_pc' = "dead"
    /\ temp_buffer' = <<>>
    /\ speed_buffer' = <<>>
    /\ status_buffer' = <<>>
    /\ last_processed' = None
    /\ analysis' = NoAnalysis
    /\ consumed' = <<>>
    /\ restarted' = FALSE
    /\ died_at' = proc_pc
    /\ skipped' = None
    /\ UNCHANGED <<clock, stream, cursor_file, csv, csv_exists>>
    /\ UNCHANGED simVars
    /\ UNCHANGED apiVars
    /\ UNCHANGED probe

\* save_to_csv: the header and the row when the file does not exist, else the row
save_to_csv ==
    /\ proc_pc = "save_csv"
    /\ csv' = IF csv_exists THEN Append(csv, DataRow(analysis))
              ELSE <<HeaderRow, DataRow(analysis)>>
    /\ csv_exists' = TRUE
    /\ proc_pc' = "save_cursor"
    /\ UNCHANGED <<clock, stream, faults, cursor_file, last_processed, temp_buffer,
                   speed_buffer, status_buffer, analysis, consumed, restarted, died_at, skipped>>
    /\ UNCHANGED simVars
    /\ UNCHANGED apiVars
    /\ UNCHANGED probe

\* save_to_csv when to_csv raises (an I/O error): the except clause logs it and
\* the method returns normally, nothing written.  When the file did not exist,
\* the error came from the open, which leaves no file, or from the write after
\* the open had created it, which leaves it empty.
save_to_csv_fails ==
    /\ proc_pc = "save_csv"
    /\ faults < MaxFaults
    /\ faults' = faults + 1
    /\ \E created \in BOOLEAN : csv_exists' = (csv_exists \/ created)
    /\ proc_pc' = "save_cursor"
    /\ UNCHANGED <<clock, stream, cursor_file, csv, last_processed, temp_buffer,
                   speed_buffer, status_buffer, analysis, consumed, restarted, died_at, skipped>>
    /\ UNCHANGED simVars
    /\ UNCHANGED apiVars
    /\ UNCHANGED probe

\* save_last_processed(datetime.fromisoformat(analysis['timestamp'])), then sleep
save_last_processed ==
    /\ proc_pc = "save_cursor"
    /\ cursor_file' = analysis.timestamp
    /\ proc_pc' = "poll"
    /\ analysis' = NoAnalysis
    /\ UNCHANGED <<clock, stream, faults, csv, csv_exists, last_processed, temp_buffer,
                   speed_buffer, status_buffer, consumed, restarted, died_at, skipped>>
    /\ UNCHANGED simVars
    /\ UNCHANGED apiVars
    /\ UNCHANGED probe

\* save_last_processed when write_text raises: the except clause logs it.  The
\* file is as it was when the open failed, and empty when the write failed
\* after the open had truncated it.
save_last_processed_fails ==
    /\ proc_pc = "save_cursor"
    /\ faults < MaxFaults
    /\ faults' = faults + 1
    /\ \E left \in {cursor_file, Unreadable} : cursor_file' = left
    /\ proc_pc' = "poll"
    /\ analysis' = NoAnalysis
    /\ UNCHANGED <<clock, stream, csv, csv_exists, last_processed, temp_buffer,
                   speed_buffer, status_buffer, consumed, restarted, died_at, skipped>>
    /\ UNCHANGED simVars
    /\ UNCHANGED apiVars
    /\ UNCHANGED probe

\* the analyzer process is killed (terminate() in run.py, a crash) at any
\* point of its loop; its memory is gone, the files stay.  Killed inside
\* save_to_csv's first write, after the open, it leaves the file empty; killed
\* inside save_last_processed's write_text, after the open has truncated the
\* cursor file, it leaves that file empty.
proc_kill ==
    /\ proc_pc # "dead"
    /\ faults < MaxFaults
    /\ faults' = faults + 1
    /\ \E created \in BOOLEAN :
          csv_exists' = (csv_exists \/ (created /\ proc_pc = "save_csv"))
    /\ \E truncated \in BOOLEAN :
          cursor_file' = IF truncated /\ proc_pc = "save_cursor"
                         THEN Unreadable ELSE cursor_file
    /\ proc_pc' = "dead"
    /\ temp_buffer' = <<>>
    /\ speed_buffer' = <<>>
    /\ status_buffer' = <<>>
    /\ last_processed' = None
    /\ analysis' = NoAnalysis
    /\ consumed' = <<>>
    /\ restarted' = FALSE
    /\ died_at' = proc_pc
    /\ skipped' = None
    /\ UNCHANGED <<clock, stream, csv>>
    /\ UNCHANGED simVars
    /\ UNCHANGED apiVars
    /\ UNCHANGED probe

\* the analyzer is started again: run_processor builds a new DataProcessor
proc_start ==
    /\ proc_pc = "dead"
    /\ NewProcessor
    /\ restarted' = TRUE
    /\ UNCHANGED died_at
    /\ UNCHANGED <<clock, stream, faults, cursor_file, csv, csv_exists>>
    /\ UNCHANGED simVars
    /\ UNCHANGED apiVars
    /\ UNCHANGED probe

\* -------------------------------------------- the pure functions, called alone
\* the largest window_size and window length tried
MaxWindow == 5

\* temperatures, speeds and statuses tried: in the ranges, on their ends, past them
ProbeTemps == {-500, 999, 1000, 2500, 3250, 4000, 4001, 4500}
ProbeSpeeds == {0, 79999, 80000, 150000, 185000, 220000, 220001, 300000}
ProbeStatuses == possible_values \cup {"REBOOT"}
\* values of a window tried: far apart, equal, and 0.09 and 0.10 apart
ProbeValues == {1500, 1510, 2500, 2509, 2510}

NoStats == [moving_avg |-> NaN, trend |-> ""]
NoProbe == [fn |-> "", reading |-> NoReading, values |-> <<>>, w |-> 0,
            alerts |-> <<>>, health |-> 0, stats |-> NoStats]

\* the calls tried: a reading for generate_alerts and calculate_health_score,
\* an array and a window size for calculate_moving_stats, a status and a draw
\* for generate_reading
Probes ==
    UNION {{[NoProbe EXCEPT !.fn = "draw", !.reading = Reading(None, d[1], d[2], st)] :
               d \in DrawRange(st)} : st \in possible_values}
    \cup
    {[NoProbe EXCEPT !.fn = "reading", !.reading = Reading(1, t, v, st)] :
        t \in ProbeTemps, v \in ProbeSpeeds, st \in ProbeStatuses}
    \cup
    {[NoProbe EXCEPT !.fn = "values", !.values = vs, !.w = w] :
        vs \in UNION {[1..n -> ProbeValues] : n \in 0..MaxWindow}, w \in 1..MaxWindow}

\* generate_alerts(reading)
call_generate_alerts ==
    /\ probe.fn = "reading"
    /\ probe' = [probe EXCEPT !.fn = "generate_alerts",
                              !.alerts = generate_alerts(probe.reading)]
    /\ UNCHANGED <<clock, stream, faults>>
    /\ UNCHANGED simVars
    /\ UNCHANGED apiVars
    /\ UNCHANGED procVars

\* calculate_health_score(current_reading)
call_calculate_health_score ==
    /\ probe.fn = "reading"
    /\ probe' = [probe EXCEPT !.fn = "calculate_health_score",
                              !.health = calculate_health_score(probe.reading)]
    /\ UNCHANGED <<clock, stream, faults>>
    /\ UNCHANGED simVars
    /\ UNCHANGED apiVars
    /\ UNCHANGED procVars

\* calculate_moving_stats(values, window_size)
call_calculate_moving_stats ==
    /\ probe.fn = "values"
    /\ probe' = [probe EXCEPT !.fn = "calculate_moving_stats",
                              !.stats = calculate_moving_stats(probe.values, probe.w)]
    /\ UNCHANGED <<clock, stream, faults>>
    /\ UNCHANGED simVars
    /\ UNCHANGED apiVars
    /\ UNCHANGED procVars

\* generate_reading for a status and a draw, and generate_alerts on the reading
\* it returns
call_generate_reading ==
    /\ probe.fn = "draw"
    /\ LET reading == generate_reading(probe.reading.status,
                                       <<probe.reading.temperature, probe.reading.speed>>)
       IN  probe' = [probe EXCEPT !.fn = "generate_reading",
                                  !.reading = reading,
                                  !.alerts = generate_alerts(reading)]
    /\ UNCHANGED <<clock, stream, faults>>
    /\ UNCHANGED simVars
    /\ UNCHANGED apiVars
    /\ UNCHANGED procVars

\* ------------------------------------------------------------ specification
SysInit ==
    /\ clock = 0
    /\ stream = <<>>
    /\ faults = 0
    /\ SimInit
    /\ ApiInit
    /\ ProcInit

Init ==
    /\ SysInit
    /\ probe = NoProbe

\* the log has room for one more line, counting the endpoint's pending append
LogRoom == Len(stream) + (IF api_pc = "append" THEN 1 ELSE 0) < MaxLog

Next ==
    \/ (LogRoom /\ sim_tick)
    \/ (LogRoom /\ sim_tick_write_fails)
    \/ sim_interrupt
    \/ sim_start
    \/ (LogRoom /\ post_validate)
    \/ post_append
    \/ process_and_analyze
    \/ process_and_analyze_raises
    \/ save_to_csv
    \/ save_to_csv_fails
    \/ save_last_processed
    \/ save_last_processed_fails
    \/ proc_kill
    \/ proc_start

Spec == Init /\ [][Next]_vars

\* the generator alone, with its interruptions and restarts
NextSim ==
    \/ sim_tick
    \/ sim_tick_write_fails
    \/ sim_interrupt
    \/ sim_start

SpecSim == Init /\ [][NextSim]_vars

\* one lifetime of the analyzer with both writers of the log and no fault
NextRun ==
    \/ (LogRoom /\ sim_tick)
    \/ (LogRoom /\ post_validate)
    \/ post_append
    \/ process_and_analyze
    \/ save_to_csv
    \/ save_last_processed

SpecRun == Init /\ [][NextRun]_vars

\* one lifetime of the analyzer, polling while the generator's lines reach the
\* file in two parts
NextPartial ==
    \/ sim_write_begin
    \/ sim_write_end
    \/ process_and_analyze
    \/ save_to_csv
    \/ save_last_processed

SpecPartial == Init /\ [][NextPartial]_vars

\* the analyzer's pure functions, each called once on each of the arguments tried
InitPure ==
    /\ SysInit
    /\ probe \in Probes

NextPure ==
    \/ call_generate_alerts
    \/ call_calculate_health_score
    \/ call_calculate_moving_stats
    \/ call_generate_reading

SpecPure == InitPure /\ [][NextPure]_vars

\* ------------------------------------------------------------------ claims
\* prev -> next is an edge of the transition table or RUNNING staying RUNNING
LegalPair(prev, next) ==
    \/ prev = "RUNNING" /\ next = "RUNNING"
    \/ next \in transitions(prev)

\* the readings the poll of this step pushed into the windows
Pushed == SubSeq(consumed', Len(consumed) + 1, Len(consumed'))

\* the well-formed lines of the log holding reading r
LinesOf(r) == {i \in DOMAIN stream : stream[i].ok /\ stream[i].reading = r}

\* C1: every step of the generator's status, from SHUTDOWN at construction, is
\* RUNNING staying RUNNING or an edge of the configured transition table; in
\* particular PAUSED is never followed by COMPLETED.
C1_GeneratorStepsLegal ==
    [][(sim_tick \/ sim_tick_write_fails)
          => /\ LegalPair(current_status, current_status')
             /\ ~(current_status = "PAUSED" /\ current_status' = "COMPLETED")]_vars

\* C1's case: the generator has written a PAUSED reading and the one after it
C1_Witness ==
    /\ Len(stream) >= 4
    /\ stream[3].ok /\ stream[3].reading.status = "PAUSED"
    /\ stream[4].ok /\ stream[4].reading.status \in {"RUNNING", "SHUTDOWN"}

\* C2: every reading in the telemetry log has speed 0 exactly when its status
\* is SHUTDOWN, whether the generator or the status-update endpoint wrote it.
C2_SpeedZeroIffShutdown ==
    \A i \in DOMAIN stream :
        stream[i].ok =>
            (stream[i].reading.speed = 0 <=> stream[i].reading.status = "SHUTDOWN")

\* C3: the statuses of every two adjacent lines of the log, whoever wrote them
\* and in whatever interleaving, are an edge of the transition table or RUNNING
\* followed by RUNNING.
C3_AdjacentLinesLegal ==
    \A i \in 1..(Len(stream) - 1) :
        (stream[i].ok /\ stream[i + 1].ok) =>
            LegalPair(stream[i].reading.status, stream[i + 1].reading.status)

\* the records a processor that has run from the start of the log, never
\* stopped, holds for the newest reading of `lines`: its windows have seen
\* every reading (one record for each outcome of the status mode)
ContinuousRecords(lines) ==
    LET readings == process_new_readings(lines, None).new_readings
        temps == update_buffer(<<>>, Column(readings, "temperature"))
        speeds == update_buffer(<<>>, Column(readings, "speed"))
        statuses == update_buffer(<<>>, Column(readings, "status"))
    IN  {Analyse(Last(readings), temps, speeds, statuses, mode) :
            mode \in status_modes(statuses)}

\* C4: a processor started afresh from a persisted cursor emits, for the
\* readings after the cursor, records identical field by field to those of a
\* processor that ran continuously from the start of the log.
C4_ResumeIdentical ==
    [][(process_and_analyze /\ restarted /\ last_processed # None
            /\ proc_pc' = "save_csv")
          => analysis' \in ContinuousRecords(stream)]_vars

\* C5: the persisted cursor is never greater than the timestamp of the newest
\* row written to the analysis table.
C5_CursorNotPastRecords ==
    cursor_file > None =>
        /\ csv # <<>>
        /\ cursor_file <= Last(csv).timestamp

\* C6: a poll pushes into the windows, exactly once, every record that is in
\* the log with a timestamp greater than the cursor before the poll.
C6_PollPushesAllNew ==
    [][process_and_analyze
          => \A i \in DOMAIN stream :
                (stream[i].ok /\ stream[i].reading.timestamp > last_processed)
                    => Count(Pushed, stream[i].reading)
                           = Cardinality(LinesOf(stream[i].reading))]_vars

\* C7: a malformed line fails alone: the poll still pushes every well-formed
\* record that follows it in the file with a timestamp greater than the cursor.
C7_MalformedLineFailsAlone ==
    [][process_and_analyze
          => \A i \in DOMAIN stream : \A j \in DOMAIN stream :
                (/\ i < j
                 /\ ~stream[i].ok /\ stream[i].nl
                 /\ stream[j].ok
                 /\ stream[j].reading.timestamp > last_processed)
                    => stream[j].reading \in Range(Pushed)]_vars

\* the processor runs on across this step: it is not killed nor started in it
SameLifetime == proc_pc # "dead" /\ proc_pc' # "dead"

\* C8: within one lifetime of the processor neither the in-memory cursor nor
\* the timestamp written to the cursor file moves to an earlier instant.
C8_CursorMonotonic ==
    [][SameLifetime
          => /\ last_processed' >= last_processed
             /\ cursor_file' # Unreadable => cursor_file' >= cursor_file]_vars

\* C8's case: the log's timestamps are out of order, and the cursor, in
\* memory and on file, stands at the later one that comes first in the file
C8_Witness ==
    /\ proc_pc = "poll"
    /\ \E i \in DOMAIN stream : \E j \in DOMAIN stream :
          /\ i < j
          /\ stream[i].reading.timestamp > stream[j].reading.timestamp
          /\ last_processed = stream[i].reading.timestamp
          /\ cursor_file = stream[i].reading.timestamp

\* C9: after a kill and a restart, the first poll that pushes anything pushes
\* every reading of the log whose timestamp is greater than the persisted cursor.
C9_RestartNeverSkips ==
    [][(process_and_analyze /\ restarted /\ consumed = <<>>)
          => \A i \in DOMAIN stream :
                (/\ stream[i].ok
                 /\ stream[i].reading.timestamp > load_last_processed(cursor_file))
                    => stream[i].reading \in Range(Pushed)]_vars

\* C10: after n readings consumed since the processor started, each window
\* holds exactly the last min(n, window_size) of them, in consumption order.
C10_WindowBound ==
    LET n == Len(consumed)
        m == Min(n, window_size)
        last == [i \in 1..m |-> consumed[n - m + i]]
    IN  /\ Len(temp_buffer) = m
        /\ Len(speed_buffer) = m
        /\ Len(status_buffer) = m
        /\ temp_buffer = Column(last, "temperature")
        /\ speed_buffer = Column(last, "speed")
        /\ status_buffer = Column(last, "status")

\* C10's case: more readings consumed than the window holds, over two polls
C10_Witness ==
    /\ Len(consumed) > window_size
    /\ Len(temp_buffer) = window_size
    /\ Len(csv) >= 3
    /\ temp_buffer[1] # temp_buffer[window_size]

\* C11: a failure inside one tick does not end the loop that owns it: after a
\* failed append the generator is still in its loop, and after an error raised
\* inside process_and_analyze the analyzer is still in its loop, at the next poll.
C11_TickFailureNotFatal ==
    [][/\ sim_tick_write_fails => sim_pc' = "tick"
       /\ process_and_analyze_raises => proc_pc' = "poll"]_vars

\* C12: a stop of the analyzer lets the iteration in flight finish: when the
\* process exits after its iteration has written the analysis row, the cursor
\* file holds that row's timestamp.
C12_StopLetsStepFinish ==
    [][(/\ proc_pc = "save_cursor"
        /\ csv # <<>> /\ Last(csv) = DataRow(analysis)
        /\ proc_pc' = "dead")
          => cursor_file' = analysis.timestamp]_vars

\* C13: a poll that meets a line without its newline at the end of the log
\* does not consume that line's record and leaves the cursor before it.
C13_PartialLineSkipped ==
    [][(process_and_analyze /\ stream # <<>> /\ ~Last(stream).nl)
          => /\ last_processed' < Last(stream).reading.timestamp
             /\ Last(stream).reading \notin Range(consumed')]_vars

\* What does hold of a partial line, with the generator the log's one writer:
\* a poll that meets, at the end of the log, a partial line that is not yet a
\* whole JSON text does not consume its record and leaves the cursor before
\* it; and after any poll every record whose JSON text is whole (its newline
\* written or not) has been consumed exactly once, the records before a
\* partial line and the record of a line completed since included.
UnparsedLineSkippedThenRead ==
    [][process_and_analyze
          => /\ \A i \in DOMAIN stream :
                   stream[i].ok => Count(consumed', stream[i].reading) = 1
             /\ (stream # <<>> /\ ~Last(stream).nl /\ ~Last(stream).ok)
                   => /\ last_processed' < Last(stream).reading.timestamp
                      /\ Last(stream).reading \notin Range(consumed')]_vars

\* its case: a poll stopped at a partial line that followed a complete one,
\* and a later poll consumed the record of that line
UnparsedLineReadLater ==
    /\ skipped # None
    /\ Len(consumed) >= 2
    /\ \E i \in DOMAIN consumed : i >= 2 /\ consumed[i].timestamp = skipped

\* the status-update endpoint serves the request for `status` in this step as
\* the claim describes, `asked` being the status the claim validates and
\* writes: it accepts exactly when asked is in the alphabet, the log's last
\* line gives a current status and asked is that status or an edge from it;
\* it then builds the Reading of the last line's temperature and speed, asked
\* and a timestamp later than every earlier one; in both cases the log is as
\* it was
PostAsClaimed(status, asked) ==
    post_request(status) =>
        /\ api_pc' = "append"
              <=> /\ asked \in possible_values
                  /\ stream # <<>> /\ Last(stream).ok
                  /\ \/ asked = Last(stream).reading.status
                     \/ asked \in transitions(Last(stream).reading.status)
        /\ api_pc' = "append"
              => /\ api_new'.status = asked
                 /\ api_new'.temperature = Last(stream).reading.temperature
                 /\ api_new'.speed = Last(stream).reading.speed
                 /\ api_new'.timestamp > clock
                 /\ \A i \in DOMAIN stream :
                       api_new'.timestamp > stream[i].reading.timestamp
        /\ stream' = stream

\* the endpoint's append adds the Reading it built as one line, after the lines
\* the log holds then, and nothing else (the log ending in a newline, as it
\* does unless a write to it was cut short meanwhile)
AppendsOneReading ==
    (post_append /\ (stream = <<>> \/ Last(stream).nl))
        => stream' = Append(stream, Line(api_new))

\* C14: the endpoint appends exactly one Reading (the last line's temperature
\* and speed, the requested status, a fresh timestamp) when the requested
\* status is in the alphabet and is the current status or an edge from it, and
\* rejects every other request, the log unchanged.
C14_EndpointAcceptsAlphabetOnly ==
    [][/\ \A status \in Requests : PostAsClaimed(status, status)
       /\ AppendsOneReading]_vars

\* C14, amended: the same with the requested status taken in upper case, both
\* in the validation and in the Reading appended.
C14_EndpointAcceptsUppercased ==
    [][/\ \A status \in Requests : PostAsClaimed(status, Upper(status))
       /\ AppendsOneReading]_vars

\* C14's case: the log holds a line the endpoint appended, a Reading with the
\* temperature and speed of the line before it and a status that is an edge
\* from that line's
C14_Witness ==
    \E i \in 2..Len(stream) :
        /\ stream[i].reading.temperature = stream[i - 1].reading.temperature
        /\ stream[i].reading.speed = stream[i - 1].reading.speed
        /\ stream[i].reading.status \in transitions(stream[i - 1].reading.status)
        /\ posts = 1

\* the rows of the analysis table, as the file holds them
IsTable(rows) ==
    rows # <<>> =>
        /\ rows[1] = HeaderRow
        /\ \A i \in 2..Len(rows) : ~rows[i].header

\* C15: after any writes to the analysis table, restarts of the analyzer
\* included, the table holds exactly one header row, its first, and each write
\* has added one data row after the rows already there, none of them changed.
C15_OneHeaderRowsAppended ==
    [][/\ IsTable(csv')
       /\ (save_to_csv \/ save_to_csv_fails) =>
             \/ csv' = csv
             \/ csv' = Append(csv, DataRow(analysis)) /\ csv # <<>>
             \/ csv' = <<HeaderRow, DataRow(analysis)>> /\ csv = <<>>]_vars

\* the position of the first entry of the window that no status outnumbers
FirstMostFrequent(window) ==
    CHOOSE i \in DOMAIN window :
        /\ \A j \in DOMAIN window : Count(window, window[j]) <= Count(window, window[i])
        /\ \A k \in 1..(i - 1) : Count(window, window[k]) < Count(window, window[i])

\* C16: the status mode of a record is the most frequent status of the status
\* window, and among statuses equally frequent the one that comes first in
\* the window.
C16_ModeFirstOnTie ==
    [][(process_and_analyze /\ proc_pc' = "save_csv")
          => analysis'.status.mode = status_buffer'[FirstMostFrequent(status_buffer')]]_vars

\* the place of an alert in the order temperature, speed, status
AlertRank(alert) ==
    CASE alert.text = "Temperature out of safe range" -> 1
      [] alert.text = "Speed out of safe range" -> 2
      [] OTHER -> 3

\* C17: generate_alerts returns, in the order temperature, speed, status: the
\* temperature alert exactly when the temperature is outside [10, 40], the
\* speed alert exactly when the speed is outside [800, 2200], the paused
\* advisory exactly for PAUSED and the shutdown advisory exactly for SHUTDOWN,
\* each rule whatever the others give; 45 degrees at an in-range speed under
\* RUNNING gives the temperature alert alone.
C17_AlertsByRule ==
    probe.fn = "generate_alerts" =>
        LET r == probe.reading
            a == probe.alerts
            hot == r.temperature < 1000 \/ r.temperature > 4000
            fast == r.speed < 80000 \/ r.speed > 220000
            Has(text, value) == \E i \in DOMAIN a : a[i] = [text |-> text, value |-> value]
        IN  /\ hot <=> Has("Temperature out of safe range", r.temperature)
            /\ fast <=> Has("Speed out of safe range", r.speed)
            /\ r.status = "PAUSED" <=> Has("Machine paused - may require attention", 0)
            /\ r.status = "SHUTDOWN" <=> Has("Machine shutdown - check if scheduled", 0)
            /\ Len(a) = (IF hot THEN 1 ELSE 0) + (IF fast THEN 1 ELSE 0)
                          + (IF r.status \in {"PAUSED", "SHUTDOWN"} THEN 1 ELSE 0)
            /\ \A i \in DOMAIN a : \A j \in DOMAIN a :
                   i < j => AlertRank(a[i]) < AlertRank(a[j])
            /\ (r.temperature = 4500 /\ ~fast /\ r.status = "RUNNING")
                   => a = <<[text |-> "Temperature out of safe range", value |-> 4500]>>

\* C17's cases: 45 degrees under RUNNING with one alert; a temperature on the
\* bound of the range, with none
C17_Witness ==
    /\ probe.fn = "generate_alerts"
    /\ \/ /\ probe.reading.temperature = 4500
          /\ probe.reading.speed = 150000
          /\ probe.reading.status = "RUNNING"
          /\ Len(probe.alerts) = 1
       \/ /\ probe.reading.temperature = 4000
          /\ probe.reading.speed = 220000
          /\ probe.reading.status = "STARTED"
          /\ probe.alerts = <<>>

\* the claim's status lookup, in tenths
LookupScore(status) ==
    IF status = "STARTED" THEN 8
    ELSE IF status = "RUNNING" THEN 10
    ELSE IF status = "PAUSED" THEN 6
    ELSE IF status = "COMPLETED" THEN 9
    ELSE 5

\* C18: calculate_health_score is the mean of temp_score = max(0, 1 - |t-25|/15),
\* speed_score = max(0, 1 - |s-1500|/700) and the status lookup, rounded to the
\* nearest hundredth: no hundredth is nearer to the mean, whose 630000-fold is
\* 140 * tn + 3 * sn + 21000 * lookup.  It is 1.0 for (25, 1500, RUNNING),
\* 0.83 for (25, 1500, SHUTDOWN) and within [0, 1] always.
C18_HealthScore ==
    probe.fn = "calculate_health_score" =>
        LET r == probe.reading
            dt == IF r.temperature >= 2500 THEN r.temperature - 2500 ELSE 2500 - r.temperature
            ds == IF r.speed >= 150000 THEN r.speed - 150000 ELSE 150000 - r.speed
            tn == IF dt >= 1500 THEN 0 ELSE 1500 - dt
            sn == IF ds >= 70000 THEN 0 ELSE 70000 - ds
            mean == 140 * tn + 3 * sn + 21000 * LookupScore(r.status)
            off == 6300 * probe.health - mean
        IN  /\ -3150 <= off /\ off <= 3150
            /\ 0 <= probe.health /\ probe.health <= 100
            /\ (r.temperature = 2500 /\ r.speed = 150000 /\ r.status = "RUNNING")
                   => probe.health = 100
            /\ (r.temperature = 2500 /\ r.speed = 150000 /\ r.status = "SHUTDOWN")
                   => probe.health = 83

\* C18's cases: (25, 1500, SHUTDOWN) scored 0.83; a reading far out of both
\* ranges with an unrecognised status, scored by the default lookup alone
C18_Witness ==
    /\ probe.fn = "calculate_health_score"
    /\ \/ /\ probe.reading = Reading(1, 2500, 150000, "SHUTDOWN")
          /\ probe.health = 83
       \/ /\ probe.reading = Reading(1, 4500, 300000, "REBOOT")
          /\ probe.health = 17

\* C19: for a window of n values, 1 <= n <= W, the moving average is
\* ((W - n) * first value + sum of the values) / W: v for the single value v,
\* the plain mean for a full window.
C19_MovingAverage ==
    (probe.fn = "calculate_moving_stats"
        /\ 1 <= Len(probe.values) /\ Len(probe.values) <= probe.w)
    => LET n == Len(probe.values)
           total == Sum(probe.values)
       IN  /\ probe.stats.moving_avg = (probe.w - n) * probe.values[1] + total
           /\ n = 1 => probe.stats.moving_avg = probe.w * probe.values[1]
           /\ n = probe.w => probe.stats.moving_avg = total

\* C19's case: a window of two different values under a window size of three
C19_Witness ==
    /\ probe.fn = "calculate_moving_stats"
    /\ probe.w = 3
    /\ probe.values = <<1500, 2500>>
    /\ probe.stats.moving_avg = 5500

\* the window after the values of a batch were pushed after those it held
WindowAfter(window, batch) == Tail_n(window \o batch, window_size)

\* the data rows of the analysis table
DataRows == {i \in DOMAIN csv : ~csv[i].header}

\* C20: a poll that finds new records emits one record for the batch: its
\* timestamp and current values are the last new record's and its window
\* statistics are those of the windows with every new record pushed; the
\* iteration writes that record as one row, and the cursor it persists is the
\* record's timestamp, the timestamp of the last record pushed.
C20_OneRecordPerBatch ==
    [][/\ (process_and_analyze /\ Pushed # <<>>)
          => LET temps == WindowAfter(temp_buffer, Column(Pushed, "temperature"))
                 speeds == WindowAfter(speed_buffer, Column(Pushed, "speed"))
                 statuses == WindowAfter(status_buffer, Column(Pushed, "status"))
             IN  /\ proc_pc' = "save_csv"
                 /\ analysis'.timestamp = Last(Pushed).timestamp
                 /\ analysis'.temperature.current = Last(Pushed).temperature
                 /\ analysis'.speed.current = Last(Pushed).speed
                 /\ analysis'.status.current = Last(Pushed).status
                 /\ analysis'.temperature.moving_avg
                       = calculate_moving_stats(temps, window_size).moving_avg
                 /\ analysis'.temperature.trend
                       = calculate_moving_stats(temps, window_size).trend
                 /\ analysis'.speed.moving_avg
                       = calculate_moving_stats(speeds, window_size).moving_avg
                 /\ analysis'.speed.trend
                       = calculate_moving_stats(speeds, window_size).trend
                 /\ analysis'.status.mode \in status_modes(statuses)
                 /\ analysis'.status.changes_in_window = Cardinality(Range(statuses))
       /\ save_to_csv
          => /\ Cardinality(DataRows') = Cardinality(DataRows) + 1
             /\ Last(csv') = DataRow(analysis)
             /\ analysis.timestamp = Last(consumed).timestamp
       /\ save_last_processed
          => /\ cursor_file' = analysis.timestamp
             /\ cursor_file' = Last(consumed).timestamp]_vars

\* C20's case: a poll pushed two records at once into a window holding one,
\* one row was written for them, that of the newer, and the cursor holds its
\* timestamp
C20_Witness ==
    /\ proc_pc = "poll"
    /\ Len(consumed) = 3
    /\ Len(csv) = 3
    /\ csv[2].timestamp = consumed[1].timestamp
    /\ csv[3].timestamp = consumed[3].timestamp
    /\ cursor_file = consumed[3].timestamp
    /\ consumed[2].temperature # consumed[3].temperature

\* the log holds no record with a timestamp greater than the cursor (every
\* record, when there is no cursor)
NothingNew ==
    ~\E i \in DOMAIN stream :
        stream[i].ok /\ stream[i].reading.timestamp > last_processed

\* C21: a poll that finds no record of the log newer than the cursor returns
\* no record: the loop stays at its poll, and the three windows, the cursor in
\* memory, the cursor file and the analysis table are as they were.
C21_EmptyPollChangesNothing ==
    [][(process_and_analyze /\ NothingNew)
          => /\ proc_pc' = "poll"
             /\ analysis' = NoAnalysis
             /\ UNCHANGED <<temp_buffer, speed_buffer, status_buffer, last_processed,
                            cursor_file, csv, csv_exists, consumed>>]_vars

\* C21's case: the analyzer is at its poll with every record of the log
\* consumed, its windows filled, a row written and the cursor at the newest
\* record, so that the poll finds nothing new
C21_Witness ==
    /\ proc_pc = "poll"
    /\ NothingNew
    /\ Len(stream) >= 2
    /\ Len(temp_buffer) = window_size
    /\ csv # <<>>
    /\ last_processed = cursor_file
    /\ \E i \in DOMAIN stream : stream[i].reading.timestamp = last_processed

\* C22: the trend of a window comes from its last two values alone: stable
\* with fewer than two values or when they differ by less than 0.1, increasing
\* when the latest is 0.1 or more above the one before, decreasing when it is
\* 0.1 or more below.
C22_TrendByLastTwo ==
    (probe.fn = "calculate_moving_stats" /\ Len(probe.values) >= 1)
    => LET n == Len(probe.values)
           slope == probe.values[n] - probe.values[n - 1]
       IN  probe.stats.trend =
              IF n < 2 THEN "stable"
              ELSE IF slope >= 10 THEN "increasing"
              ELSE IF slope <= -10 THEN "decreasing"
              ELSE "stable"

\* C23: with the cursor file missing or holding what does not parse as a
\* timestamp, the processor starts, with no cursor, and its first poll
\* consumes every record of the log.
C23_NoCursorReadsAll ==
    [][/\ (proc_start /\ cursor_file \in {None, Unreadable})
          => (proc_pc' = "poll" /\ last_processed' = None)
       /\ (process_and_analyze /\ last_processed = None)
          => \A i \in DOMAIN stream :
                stream[i].ok => stream[i].reading \in Range(Pushed)]_vars

\* What does hold: when the log's lines all parse and their timestamps
\* increase down the file, the first poll of a processor with no cursor
\* consumes every record, each once and in the file's order.
NoCursorReadsAllOfCleanLog ==
    [][(/\ process_and_analyze /\ last_processed = None
        /\ \A i \in DOMAIN stream : stream[i].ok
        /\ \A i \in DOMAIN stream : \A j \in DOMAIN stream :
              i < j => stream[i].reading.timestamp < stream[j].reading.timestamp)
          => Pushed = [i \in DOMAIN stream |-> stream[i].reading]]_vars

\* its case: a processor started on an emptied cursor file has consumed a log
\* of two records or more in its first poll
NoCursorRestartReadAll ==
    /\ restarted
    /\ cursor_file = Unreadable
    /\ Len(consumed) >= 2
    /\ proc_pc = "save_csv"
    /\ consumed = [i \in DOMAIN stream |-> stream[i].reading]

\* the timestamps of the data rows of the analysis table
RowStamps == {csv[i].timestamp : i \in DataRows}

\* C24: a row written to the analysis table is stamped no earlier than any row
\* before it, later than all of them in a run of the analyzer that follows no
\* crash, and the same as one of them only when the analyzer before this one
\* died between writing a row and saving the cursor.
C24_RowStampsOrdered ==
    [][save_to_csv
          => /\ \A t \in RowStamps : t <= analysis.timestamp
             /\ ~restarted => \A t \in RowStamps : t < analysis.timestamp
             /\ analysis.timestamp \in RowStamps
                   => (restarted /\ died_at = "save_cursor")]_vars

\* What does hold: the rows' timestamps never decrease down the table, and no
\* two rows written by an analyzer that follows no crash share a timestamp.
RowStampsNeverDecrease ==
    [][save_to_csv
          => /\ \A t \in RowStamps : t <= analysis.timestamp
             /\ ~restarted => \A t \in RowStamps : t < analysis.timestamp]_vars

\* its case: a second row with the timestamp of the first, written after a
\* crash between the first row and its cursor save
RowStampRepeated ==
    /\ Cardinality(DataRows) >= 2
    /\ Cardinality(RowStamps) < Cardinality(DataRows)
    /\ died_at = "save_cursor"

\* C25: while the analyzer lives, the cursor its file holds (none when the
\* file is missing or does not parse) is no later than its in-memory cursor,
\* and a cursor save that succeeds ends the iteration with the two equal.
C25_PersistedCursorBehind ==
    /\ [](proc_pc # "dead" => load_last_processed(cursor_file) <= last_processed)
    /\ [][save_last_processed
             => (cursor_file' = last_processed' /\ proc_pc' = "poll")]_vars

\* C25's case: a batch of two readings was read, the in-memory cursor is ahead
\* of the file's before the save
C25_Witness ==
    /\ proc_pc = "save_cursor"
    /\ cursor_file > None
    /\ cursor_file < last_processed
    /\ Len(consumed) >= 3

\* C26: a reading the generator produces raises no temperature alert; with
\* status SHUTDOWN it yields the speed alert, for speed 0, and then the shutdown
\* advisory, and nothing else; with any other status it yields the paused
\* advisory or nothing.
C26_GeneratorAlerts ==
    probe.fn = "generate_reading"
    => LET a == probe.alerts
           paused == [text |-> "Machine paused - may require attention", value |-> 0]
       IN  /\ \A i \in DOMAIN a : a[i].text # "Temperature out of safe range"
           /\ probe.reading.status = "SHUTDOWN"
                 => a = <<[text |-> "Speed out of safe range", value |-> 0],
                          [text |-> "Machine shutdown - check if scheduled", value |-> 0]>>
           /\ probe.reading.status # "SHUTDOWN" => a \in {<<>>, <<paused>>}

\* C26's case: a paused reading at the lower end of the speed alert range,
\* with the paused advisory alone
C26_Witness ==
    /\ probe.fn = "generate_reading"
    /\ probe.reading.status = "PAUSED"
    /\ probe.reading.speed = speed_alert_range[1]
    /\ Len(probe.alerts) = 1

====
